---- MODULE Spec2Model ----
(***************************************************************************)
(* Model of cmd/ipfs/daemon.go: the daemon orchestrator (daemonFunc), the  *)
(* two HTTP service launchers (serveHTTPApi, serveHTTPGateway), mountFuse  *)
(* and the error fan-in (merge).                                           *)
(*                                                                         *)
(* Go channels of the file are unbuffered: a send and the matching receive *)
(* are one step (a rendezvous) of the two goroutines involved.             *)
(*                                                                         *)
(* Two systems are described over the same variables:                      *)
(*   Spec / FairSpec           daemonFunc with its services and its merge  *)
(*   MergeSpec / FairMergeSpec merge alone, called on arbitrary inputs fed *)
(*                             by producers and drained by one consumer    *)
(***************************************************************************)
EXTENDS Integers, Sequences, FiniteSets, Bags, TLC

\* ---------------------------------------------------------------- bounds
\* largest number of arguments passed to merge in MergeSpec
MaxInputs == 3
\* largest total number of values sent on all inputs in MergeSpec
MaxTotal == 3

\* ---------------------------------------------------------------- values
\* the nil error and the nil channel
NoErr == "nil"
NilChan == 0
\* non-nil errors a serving loop can return
Errs == {"e1", "e2"}
Vals == {NoErr} \cup Errs
\* values the producers of MergeSpec send
MergeVals == {NoErr, "e1"}

VARIABLES
    \* ---- channels (index = channel id) and their sending goroutines
    ppc,        \* position of the goroutine that sends on the channel
    pending,    \* values that goroutine has still to send
    chClosed,   \* the channel has been closed
    sent,       \* history: values whose send on the channel completed
    \* ---- merge
    cs,         \* the arguments of the merge call (NilChan or a channel id)
    mpc,        \* position of the merge call: "idle", "loop", "ret"
    mi,         \* index of the for loop over cs
    wpc,        \* position of the output goroutine of each argument
    wval,       \* the value n held by each output goroutine
    wg,         \* the sync.WaitGroup counter
    cpc,        \* position of the goroutine that closes out
    outClosed,  \* out has been closed
    outCloses,  \* history: number of close(out) calls
    received,   \* history: what has been read from out, in order
    kpc,        \* position of the draining consumer of MergeSpec
    \* ---- daemonFunc
    pc,         \* position of daemonFunc
    errs,       \* history: errors given to res.SetError, in order
    lock,       \* the repo lock: "free", "held", "released"
    lockReleases, \* history: number of releases of the repo lock
    node,       \* the node: "none", "running", "closing", "closed"
    nodeCloses, \* history: number of node.Close calls
    apiErrc,    \* daemonFunc's apiErrc: NilChan or the API's channel
    gwErrc,     \* daemonFunc's gwErrc: NilChan or the gateway's channel
    lis,        \* listener of each service: "none", "open"
    cancelled,  \* req.Context() is done
    watcher,    \* position of the goroutine watching req.Context().Done()
    graceful,   \* "Gracefully shut down daemon" has been logged
    mounted,    \* commands.Mount succeeded
    events,     \* history: calls made by daemonFunc, in order
    cancelAt    \* history: where daemonFunc was when cancellation fired, and
                \* whether no service had produced a non-nil error by then

chanVars == <<ppc, pending, chClosed, sent>>
mergeVars == <<cs, mpc, mi, wpc, wval, wg, cpc, outClosed, outCloses>>
daemonVars == <<pc, errs, lock, lockReleases, node, nodeCloses, apiErrc,
                gwErrc, lis, cancelled, watcher, graceful, mounted, events, cancelAt>>
vars == <<chanVars, mergeVars, received, kpc, daemonVars>>

\* ------------------------------------------------------------- helpers
RECURSIVE SumLen(_)
SumLen(ss) == IF ss = <<>> THEN 0 ELSE Len(Head(ss)) + SumLen(Tail(ss))

RECURSIVE SeqToBag(_)
SeqToBag(s) == IF s = <<>> THEN EmptyBag
               ELSE SeqToBag(Tail(s)) (+) SetToBag({Head(s)})

RECURSIVE ConcatAll(_)
ConcatAll(ss) == IF ss = <<>> THEN <<>> ELSE Head(ss) \o ConcatAll(Tail(ss))

SeqsUpTo(S, n) == UNION {[1..k -> S] : k \in 0..n}

\* ------------------------------------------------------------------ merge
\* MergeLoop without the "c != nil" test of line 491
MergeLoopNoNilTest ==
    /\ mpc = "loop"
    /\ mi <= Len(cs)
    /\ wg' = wg + 1
    /\ wpc' = [wpc EXCEPT ![mi] = "recv"]
    /\ mi' = mi + 1
    /\ UNCHANGED <<cs, mpc, wval, cpc, outClosed, outCloses>>
    /\ UNCHANGED <<chanVars, received, kpc, daemonVars>>

\* MergeLoop with the loop variable captured by the goroutine instead of
\* passed to it (line 493 as "go output()"): the goroutine started for
\* argument mi reads the channel the loop variable holds last
MergeLoopSharedChan ==
    /\ mpc = "loop"
    /\ mi <= Len(cs)
    /\ IF cs[mi] # NilChan
         THEN /\ wg' = wg + 1
              /\ wpc' = [wpc EXCEPT ![mi] = "recv"]
              /\ cs' = [cs EXCEPT ![mi] = cs[Len(cs)]]
         ELSE UNCHANGED <<wg, wpc, cs>>
    /\ mi' = mi + 1
    /\ UNCHANGED <<mpc, wval, cpc, outClosed, outCloses>>
    /\ UNCHANGED <<chanVars, received, kpc, daemonVars>>

\* merge, lines 490-495: one iteration of "for _, c := range cs"
MergeLoop ==
    /\ mpc = "loop"
    /\ mi <= Len(cs)
    /\ IF cs[mi] # NilChan
         THEN /\ wg' = wg + 1
              /\ wpc' = [wpc EXCEPT ![mi] = "recv"]
         ELSE UNCHANGED <<wg, wpc>>
    /\ mi' = mi + 1
    /\ UNCHANGED <<cs, mpc, wval, cpc, outClosed, outCloses>>
    /\ UNCHANGED <<chanVars, received, kpc, daemonVars>>

\* merge, lines 499-503: after the loop, start the closing goroutine, return
MergeReturn ==
    /\ mpc = "loop"
    /\ mi > Len(cs)
    /\ cpc' = "wait"
    /\ mpc' = "ret"
    /\ UNCHANGED <<cs, mi, wpc, wval, wg, outClosed, outCloses>>
    /\ UNCHANGED <<chanVars, received, kpc, daemonVars>>

\* output, line 485 with the sender's "errc <- v": the output goroutine of
\* argument j receives the next value sent on its channel (a receive from a
\* nil channel blocks forever)
OutputRecv(j) ==
    /\ j \in DOMAIN cs
    /\ wpc[j] = "recv"
    /\ cs[j] # NilChan
    /\ LET c == cs[j] IN
        /\ ppc[c] = "send"
        /\ pending[c] # <<>>
        /\ ~chClosed[c]
        /\ wval' = [wval EXCEPT ![j] = Head(pending[c])]
        /\ sent' = [sent EXCEPT ![c] = Append(@, Head(pending[c]))]
        /\ pending' = [pending EXCEPT ![c] = Tail(@)]
        /\ ppc' = [ppc EXCEPT ![c] = IF Tail(pending[c]) = <<>> THEN "close" ELSE "send"]
    /\ wpc' = [wpc EXCEPT ![j] = "send"]
    /\ UNCHANGED <<chClosed, cs, mpc, mi, wg, cpc, outClosed, outCloses>>
    /\ UNCHANGED <<received, kpc, daemonVars>>

\* output, lines 485 and 488: the range over a closed channel ends, wg.Done()
OutputDone(j) ==
    /\ j \in DOMAIN cs
    /\ wpc[j] = "recv"
    /\ cs[j] # NilChan
    /\ chClosed[cs[j]]
    /\ wpc' = [wpc EXCEPT ![j] = "done"]
    /\ wg' = wg - 1
    /\ UNCHANGED <<cs, mpc, mi, wval, cpc, outClosed, outCloses>>
    /\ UNCHANGED <<chanVars, received, kpc, daemonVars>>

\* output, line 486: the sender's half of "out <- n"; the receiver's half is
\* the reader of out (ConsumerRecv, DaemonRecv)
OutputSend(j) ==
    /\ j \in DOMAIN cs
    /\ wpc[j] = "send"
    /\ ~outClosed
    /\ wpc' = [wpc EXCEPT ![j] = "recv"]

\* CloseOut without the wg.Wait() of line 500
CloseOutNoWait ==
    /\ cpc = "wait"
    /\ cpc' = "done"
    /\ outClosed' = TRUE
    /\ outCloses' = outCloses + 1
    /\ UNCHANGED <<cs, mpc, mi, wpc, wval, wg>>
    /\ UNCHANGED <<chanVars, received, kpc, daemonVars>>

\* merge, lines 499-502: wg.Wait() returns at counter zero, then close(out)
CloseOut ==
    /\ cpc = "wait"
    /\ wg = 0
    /\ cpc' = "done"
    /\ outClosed' = TRUE
    /\ outCloses' = outCloses + 1
    /\ UNCHANGED <<cs, mpc, mi, wpc, wval, wg>>
    /\ UNCHANGED <<chanVars, received, kpc, daemonVars>>

\* the sending goroutine closes its channel after its last send
\* (lines 322 and 416 for the services)
ProducerClose(c) ==
    /\ c \in DOMAIN ppc
    /\ ppc[c] = "close"
    /\ ppc' = [ppc EXCEPT ![c] = "done"]
    /\ chClosed' = [chClosed EXCEPT ![c] = TRUE]
    /\ UNCHANGED <<pending, sent, mergeVars, received, kpc, daemonVars>>

\* ------------------------------------------------- the consumer of MergeSpec
\* "for v := range out": one value read from out
ConsumerRecv(j) ==
    /\ kpc = "recv"
    /\ mpc = "ret"
    /\ OutputSend(j)
    /\ received' = Append(received, <<j, wval[j]>>)
    /\ UNCHANGED <<cs, mpc, mi, wval, wg, cpc, outClosed, outCloses>>
    /\ UNCHANGED <<chanVars, kpc, daemonVars>>

\* "for v := range out": out is closed, the loop ends
ConsumerDone ==
    /\ kpc = "recv"
    /\ mpc = "ret"
    /\ outClosed
    /\ kpc' = "done"
    /\ UNCHANGED <<chanVars, mergeVars, received, daemonVars>>

\* -------------------------------------------------------------- daemonFunc
\* the channel ids of the two services
ApiChan == 1
GwChan == 2

\* the state outside of any daemonFunc run (MergeSpec)
DaemonIdle ==
    /\ pc = "off"
    /\ errs = <<>>
    /\ lock = "free"
    /\ lockReleases = 0
    /\ node = "none"
    /\ nodeCloses = 0
    /\ apiErrc = NilChan
    /\ gwErrc = NilChan
    /\ lis = <<>>
    /\ cancelled = FALSE
    /\ watcher = "none"
    /\ graceful = FALSE
    /\ mounted = FALSE
    /\ events = <<>>
    /\ cancelAt = [fired |-> FALSE, pc |-> "", clean |-> TRUE]

\* res.SetError(err, cmds.ErrNormal)
SetError(e) == errs' = Append(errs, e)

\* lines 215-217: the ConstructNode daemonFunc installs returns (node, nil)
ConstructNode == NoErr

\* the ways a launcher can end: "ok" or the step that failed
ApiOutcomes == {"ok", "getconfig", "addr", "listen", "option", "node"}
GwOutcomes == {"ok", "getconfig", "addr", "option", "listen", "blacklist", "whitelist", "node"}
MountOutcomes == {"ok", "getconfig", "option", "node", "mount"}
Possible(outcomes) == IF ConstructNode = NoErr THEN outcomes \ {"node"} ELSE outcomes

\* the error each failing step returns
ApiErr == [getconfig |-> "api:getconfig", addr |-> "api:addr", listen |-> "api:listen",
           option |-> "api:option", node |-> "api:node"]
GwErr == [getconfig |-> "gw:getconfig", addr |-> "gw:addr", option |-> "gw:option",
          listen |-> "gw:listen", blacklist |-> "gw:blacklist",
          whitelist |-> "gw:whitelist", node |-> "gw:node"]
MountErr == [getconfig |-> "mount:getconfig", option |-> "mount:option",
             node |-> "mount:node", mount |-> "mount:mount"]

\* the completion channel a launcher returns with outcome o: errc at lines
\* 324 and 418, nil with every error
LaunchErrc(o, errc) == IF o = "ok" THEN errc ELSE NilChan

\* serveHTTPApi with the serving goroutine of line 320 started before the
\* listener is bound at line 272
serveHTTPApiServeFirst(o) ==
    /\ lis' = [lis EXCEPT ![ApiChan] = IF o \in {"ok", "option", "node"} THEN "open" ELSE @]
    /\ ppc' = [ppc EXCEPT ![ApiChan] = IF o \in {"ok", "listen", "option", "node"}
                                        THEN "serving" ELSE @]

\* serveHTTPApi, lines 261-325, ending with outcome o: the listener is bound
\* at line 272, the serving goroutine is started at line 320
serveHTTPApi(o) ==
    /\ lis' = [lis EXCEPT ![ApiChan] = IF o \in {"ok", "option", "node"} THEN "open" ELSE @]
    /\ ppc' = [ppc EXCEPT ![ApiChan] = IF o = "ok" THEN "serving" ELSE @]

\* serveHTTPGateway with the serving goroutine of line 414 started before the
\* listener is bound at line 360
serveHTTPGatewayServeFirst(o) ==
    /\ lis' = [lis EXCEPT ![GwChan] =
                 IF o \in {"ok", "blacklist", "whitelist", "node"} THEN "open" ELSE @]
    /\ ppc' = [ppc EXCEPT ![GwChan] = IF o \in {"ok", "listen", "blacklist", "whitelist", "node"}
                                        THEN "serving" ELSE @]

\* serveHTTPGateway, lines 341-419, ending with outcome o: the listener is
\* bound at line 360, the serving goroutine is started at line 414
serveHTTPGateway(o) ==
    /\ lis' = [lis EXCEPT ![GwChan] =
                 IF o \in {"ok", "blacklist", "whitelist", "node"} THEN "open" ELSE @]
    /\ ppc' = [ppc EXCEPT ![GwChan] = IF o = "ok" THEN "serving" ELSE @]

\* mountFuse, lines 440-474, ending with outcome o
mountFuse(o) == mounted' = (o = "ok")

\* lines 110-137: start the watcher goroutine, read the init option
DaemonStart ==
    /\ pc = "start"
    /\ watcher' = "waiting"
    /\ \E optErr \in BOOLEAN, initialize \in BOOLEAN :
         IF optErr
           THEN /\ SetError("option:init")
                /\ pc' = "returned"
           ELSE /\ pc' = IF initialize THEN "init" ELSE "open"
                /\ UNCHANGED errs
    /\ UNCHANGED <<lock, lockReleases, node, nodeCloses, apiErrc, gwErrc, lis, cancelled,
                   graceful, mounted, events, cancelAt>>
    /\ UNCHANGED <<chanVars, mergeVars, received, kpc>>

\* lines 139-152: initWithDefaults when the config root does not exist
DaemonInit ==
    /\ pc = "init"
    /\ \E exists \in BOOLEAN, initErr \in BOOLEAN :
         IF ~exists /\ initErr
           THEN /\ SetError("init")
                /\ pc' = "returned"
           ELSE /\ pc' = "open"
                /\ UNCHANGED errs
    /\ UNCHANGED <<lock, lockReleases, node, nodeCloses, apiErrc, gwErrc, lis, cancelled,
                   watcher, graceful, mounted, events, cancelAt>>
    /\ UNCHANGED <<chanVars, mergeVars, received, kpc>>

\* DaemonOpen without the return of line 159
DaemonOpenNoReturn ==
    /\ pc = "open"
    /\ events' = Append(events, "fsrepo.Open")
    /\ \E ok \in BOOLEAN :
         IF ok
           THEN /\ lock' = "held"
                /\ pc' = "config"
                /\ UNCHANGED errs
           ELSE /\ SetError("open")
                /\ pc' = "config"
                /\ UNCHANGED lock
    /\ UNCHANGED <<lockReleases, node, nodeCloses, apiErrc, gwErrc, lis, cancelled,
                   watcher, graceful, mounted, cancelAt>>
    /\ UNCHANGED <<chanVars, mergeVars, received, kpc>>

\* lines 154-160: fsrepo.Open acquires the repo lock
DaemonOpen ==
    /\ pc = "open"
    /\ events' = Append(events, "fsrepo.Open")
    /\ \E ok \in BOOLEAN :
         IF ok
           THEN /\ lock' = "held"
                /\ pc' = "config"
                /\ UNCHANGED errs
           ELSE /\ SetError("open")
                /\ pc' = "returned"
                /\ UNCHANGED lock
    /\ UNCHANGED <<lockReleases, node, nodeCloses, apiErrc, gwErrc, lis, cancelled,
                   watcher, graceful, mounted, cancelAt>>
    /\ UNCHANGED <<chanVars, mergeVars, received, kpc>>

\* lines 162-166: ctx.GetConfig
DaemonConfig ==
    /\ pc = "config"
    /\ \E ok \in BOOLEAN :
         IF ok
           THEN /\ pc' = "routing"
                /\ UNCHANGED errs
           ELSE /\ SetError("config")
                /\ pc' = "returned"
    /\ UNCHANGED <<lock, lockReleases, node, nodeCloses, apiErrc, gwErrc, lis, cancelled,
                   watcher, graceful, mounted, events, cancelAt>>
    /\ UNCHANGED <<chanVars, mergeVars, received, kpc>>

\* lines 168-177: the routing option
DaemonRouting ==
    /\ pc = "routing"
    /\ \E ok \in BOOLEAN, supernode \in BOOLEAN :
         IF ok
           THEN /\ pc' = IF supernode THEN "supernode" ELSE "build"
                /\ UNCHANGED errs
           ELSE /\ SetError("option:routing")
                /\ pc' = "returned"
    /\ UNCHANGED <<lock, lockReleases, node, nodeCloses, apiErrc, gwErrc, lis, cancelled,
                   watcher, graceful, mounted, events, cancelAt>>
    /\ UNCHANGED <<chanVars, mergeVars, received, kpc>>

\* DaemonSupernode without the return of line 182
DaemonSupernodeNoReturn ==
    /\ pc = "supernode"
    /\ \E ok \in BOOLEAN :
         IF ok
           THEN /\ pc' = "build"
                /\ UNCHANGED <<errs, lock, lockReleases, events>>
           ELSE /\ SetError("supernode")
                /\ events' = Append(events, "repo.Close")
                /\ lock' = "released"
                /\ lockReleases' = lockReleases + 1
                /\ pc' = "build"
    /\ UNCHANGED <<node, nodeCloses, apiErrc, gwErrc, lis, cancelled,
                   watcher, graceful, mounted, cancelAt>>
    /\ UNCHANGED <<chanVars, mergeVars, received, kpc>>

\* lines 177-192: the supernode server addresses; on failure repo.Close()
DaemonSupernode ==
    /\ pc = "supernode"
    /\ \E ok \in BOOLEAN :
         IF ok
           THEN /\ pc' = "build"
                /\ UNCHANGED <<errs, lock, lockReleases, events>>
           ELSE /\ SetError("supernode")
                /\ events' = Append(events, "repo.Close")
                /\ lock' = "released"
                /\ lockReleases' = lockReleases + 1
                /\ pc' = "returned"
    /\ UNCHANGED <<node, nodeCloses, apiErrc, gwErrc, lis, cancelled,
                   watcher, graceful, mounted, cancelAt>>
    /\ UNCHANGED <<chanVars, mergeVars, received, kpc>>

\* what a failed nb.Build leaves of the lock: ownership has not been
\* transferred, the lock stays as it was
BuildFailedLock(l) == l

\* lines 194-217: nb.Build; on success the teardown is deferred
DaemonBuild ==
    /\ pc = "build"
    /\ events' = Append(events, "nb.Build")
    /\ \E ok \in BOOLEAN :
         IF ok
           THEN /\ node' = "running"
                /\ pc' = "api"
                /\ UNCHANGED <<errs, lock>>
           ELSE /\ SetError("build")
                /\ lock' = BuildFailedLock(lock)
                /\ pc' = "returned"
                /\ UNCHANGED node
    /\ UNCHANGED <<lockReleases, nodeCloses, apiErrc, gwErrc, lis, cancelled,
                   watcher, graceful, mounted, cancelAt>>
    /\ UNCHANGED <<chanVars, mergeVars, received, kpc>>

\* DaemonApi without the return of line 223
DaemonApiNoReturn ==
    /\ pc = "api"
    /\ events' = Append(events, "serveHTTPApi")
    /\ \E o \in Possible(ApiOutcomes) :
         /\ serveHTTPApi(o)
         /\ apiErrc' = LaunchErrc(o, ApiChan)
         /\ IF o = "ok"
              THEN /\ pc' = "gateway"
                   /\ UNCHANGED errs
              ELSE /\ SetError(ApiErr[o])
                   /\ pc' = "gateway"
    /\ UNCHANGED <<lock, lockReleases, node, nodeCloses, gwErrc, cancelled,
                   watcher, graceful, mounted, cancelAt>>
    /\ UNCHANGED <<pending, chClosed, sent, mergeVars, received, kpc>>

\* lines 219-224: serveHTTPApi - every time
DaemonApi ==
    /\ pc = "api"
    /\ events' = Append(events, "serveHTTPApi")
    /\ \E o \in Possible(ApiOutcomes) :
         /\ serveHTTPApi(o)
         /\ apiErrc' = LaunchErrc(o, ApiChan)
         /\ IF o = "ok"
              THEN /\ pc' = "gateway"
                   /\ UNCHANGED errs
              ELSE /\ SetError(ApiErr[o])
                   /\ pc' = "defer"
    /\ UNCHANGED <<lock, lockReleases, node, nodeCloses, gwErrc, cancelled,
                   watcher, graceful, mounted, cancelAt>>
    /\ UNCHANGED <<pending, chClosed, sent, mergeVars, received, kpc>>

\* DaemonGateway without the return of line 233
DaemonGatewayNoReturn ==
    /\ pc = "gateway"
    /\ \E configured \in BOOLEAN :
         IF configured
           THEN /\ events' = Append(events, "serveHTTPGateway")
                /\ \E o \in Possible(GwOutcomes) :
                     /\ serveHTTPGateway(o)
                     /\ gwErrc' = LaunchErrc(o, GwChan)
                     /\ IF o = "ok"
                          THEN /\ pc' = "mount"
                               /\ UNCHANGED errs
                          ELSE /\ SetError(GwErr[o])
                               /\ pc' = "mount"
           ELSE /\ pc' = "mount"
                /\ UNCHANGED <<events, errs, gwErrc, lis, ppc>>
    /\ UNCHANGED <<lock, lockReleases, node, nodeCloses, apiErrc, cancelled,
                   watcher, graceful, mounted, cancelAt>>
    /\ UNCHANGED <<pending, chClosed, sent, mergeVars, received, kpc>>

\* lines 226-235: serveHTTPGateway - if it is set in the config
DaemonGateway ==
    /\ pc = "gateway"
    /\ \E configured \in BOOLEAN :
         IF configured
           THEN /\ events' = Append(events, "serveHTTPGateway")
                /\ \E o \in Possible(GwOutcomes) :
                     /\ serveHTTPGateway(o)
                     /\ gwErrc' = LaunchErrc(o, GwChan)
                     /\ IF o = "ok"
                          THEN /\ pc' = "mount"
                               /\ UNCHANGED errs
                          ELSE /\ SetError(GwErr[o])
                               /\ pc' = "defer"
           ELSE /\ pc' = "mount"
                /\ UNCHANGED <<events, errs, gwErrc, lis, ppc>>
    /\ UNCHANGED <<lock, lockReleases, node, nodeCloses, apiErrc, cancelled,
                   watcher, graceful, mounted, cancelAt>>
    /\ UNCHANGED <<pending, chClosed, sent, mergeVars, received, kpc>>

\* lines 237-248: the mount flag and mountFuse
DaemonMount ==
    /\ pc = "mount"
    /\ \E optErr \in BOOLEAN, mount \in BOOLEAN :
         IF optErr
           THEN /\ SetError("option:mount")
                /\ pc' = "defer"
                /\ UNCHANGED <<events, mounted>>
           ELSE IF mount
             THEN /\ events' = Append(events, "mountFuse")
                  /\ \E o \in Possible(MountOutcomes) :
                       /\ mountFuse(o)
                       /\ IF o = "ok"
                            THEN /\ pc' = "merge"
                                 /\ UNCHANGED errs
                            ELSE /\ SetError(MountErr[o])
                                 /\ pc' = "defer"
             ELSE /\ pc' = "merge"
                  /\ UNCHANGED <<events, errs, mounted>>
    /\ UNCHANGED <<lock, lockReleases, node, nodeCloses, apiErrc, gwErrc, lis, cancelled,
                   watcher, graceful, cancelAt>>
    /\ UNCHANGED <<chanVars, mergeVars, received, kpc>>

\* line 252 and lines 479-480: the call merge(apiErrc, gwErrc)
DaemonMerge ==
    /\ pc = "merge"
    /\ events' = Append(events, "merge")
    /\ cs' = <<apiErrc, gwErrc>>
    /\ mpc' = "loop"
    /\ mi' = 1
    /\ wg' = 0
    /\ wpc' = <<"none", "none">>
    /\ wval' = <<NoErr, NoErr>>
    /\ pc' = "range"
    /\ UNCHANGED <<cpc, outClosed, outCloses>>
    /\ UNCHANGED <<errs, lock, lockReleases, node, nodeCloses, apiErrc, gwErrc, lis, cancelled,
                   watcher, graceful, mounted, cancelAt>>
    /\ UNCHANGED <<chanVars, received, kpc>>

\* DaemonRecv without the return of line 255
DaemonRecvNoReturn(j) ==
    /\ pc = "range"
    /\ mpc = "ret"
    /\ OutputSend(j)
    /\ received' = Append(received, <<j, wval[j]>>)
    /\ IF wval[j] # NoErr
         THEN /\ SetError(wval[j])
              /\ UNCHANGED pc
         ELSE UNCHANGED <<pc, errs>>
    /\ UNCHANGED <<cs, mpc, mi, wval, wg, cpc, outClosed, outCloses>>
    /\ UNCHANGED <<lock, lockReleases, node, nodeCloses, apiErrc, gwErrc, lis, cancelled,
                   watcher, graceful, mounted, events, cancelAt>>
    /\ UNCHANGED <<chanVars, kpc>>

\* DaemonRecv without the "err != nil" test of line 253
DaemonRecvReportsNil(j) ==
    /\ pc = "range"
    /\ mpc = "ret"
    /\ OutputSend(j)
    /\ received' = Append(received, <<j, wval[j]>>)
    /\ SetError(wval[j])
    /\ pc' = "defer"
    /\ UNCHANGED <<cs, mpc, mi, wval, wg, cpc, outClosed, outCloses>>
    /\ UNCHANGED <<lock, lockReleases, node, nodeCloses, apiErrc, gwErrc, lis, cancelled,
                   watcher, graceful, mounted, events, cancelAt>>
    /\ UNCHANGED <<chanVars, kpc>>

\* DaemonRecv with the return of line 255 outside the "err != nil" test
DaemonRecvReturnsOnNil(j) ==
    /\ pc = "range"
    /\ mpc = "ret"
    /\ OutputSend(j)
    /\ received' = Append(received, <<j, wval[j]>>)
    /\ IF wval[j] # NoErr
         THEN /\ SetError(wval[j])
              /\ pc' = "defer"
         ELSE /\ pc' = "defer"
              /\ UNCHANGED errs
    /\ UNCHANGED <<cs, mpc, mi, wval, wg, cpc, outClosed, outCloses>>
    /\ UNCHANGED <<lock, lockReleases, node, nodeCloses, apiErrc, gwErrc, lis, cancelled,
                   watcher, graceful, mounted, events, cancelAt>>
    /\ UNCHANGED <<chanVars, kpc>>

\* lines 252-257: one value read from the merged channel; the first non-nil
\* one is reported and ends daemonFunc
DaemonRecv(j) ==
    /\ pc = "range"
    /\ mpc = "ret"
    /\ OutputSend(j)
    /\ received' = Append(received, <<j, wval[j]>>)
    /\ IF wval[j] # NoErr
         THEN /\ SetError(wval[j])
              /\ pc' = "defer"
         ELSE UNCHANGED <<pc, errs>>
    /\ UNCHANGED <<cs, mpc, mi, wval, wg, cpc, outClosed, outCloses>>
    /\ UNCHANGED <<lock, lockReleases, node, nodeCloses, apiErrc, gwErrc, lis, cancelled,
                   watcher, graceful, mounted, events, cancelAt>>
    /\ UNCHANGED <<chanVars, kpc>>

\* DaemonRangeEnd with the teardown of lines 203-213 not deferred
DaemonRangeEndNoTeardown ==
    /\ pc = "range"
    /\ mpc = "ret"
    /\ outClosed
    /\ pc' = "returned"
    /\ UNCHANGED <<errs, lock, lockReleases, node, nodeCloses, apiErrc, gwErrc, lis, cancelled,
                   watcher, graceful, mounted, events, cancelAt>>
    /\ UNCHANGED <<chanVars, mergeVars, received, kpc>>

\* lines 252 and 258: the merged channel is closed, daemonFunc returns
DaemonRangeEnd ==
    /\ pc = "range"
    /\ mpc = "ret"
    /\ outClosed
    /\ pc' = "defer"
    /\ UNCHANGED <<errs, lock, lockReleases, node, nodeCloses, apiErrc, gwErrc, lis, cancelled,
                   watcher, graceful, mounted, events, cancelAt>>
    /\ UNCHANGED <<chanVars, mergeVars, received, kpc>>

\* lines 203-206: the deferred teardown calls node.Close()
DaemonNodeClose ==
    /\ pc = "defer"
    /\ events' = Append(events, "node.Close")
    /\ node' = "closing"
    /\ nodeCloses' = nodeCloses + 1
    /\ pc' = "closing"
    /\ UNCHANGED <<errs, lock, lockReleases, apiErrc, gwErrc, lis, cancelled,
                   watcher, graceful, mounted, cancelAt>>
    /\ UNCHANGED <<chanVars, mergeVars, received, kpc>>

\* node.Close returns: it has waited for its children (the serving loops)
\* and, owning the repo, has released the repo lock
NodeClosed ==
    /\ pc = "closing"
    /\ \A c \in DOMAIN ppc : ppc[c] # "serving"
    /\ node' = "closed"
    /\ lock' = "released"
    /\ lockReleases' = lockReleases + 1
    /\ pc' = "select"
    /\ UNCHANGED <<errs, nodeCloses, apiErrc, gwErrc, lis, cancelled,
                   watcher, graceful, mounted, events, cancelAt>>
    /\ UNCHANGED <<chanVars, mergeVars, received, kpc>>

\* lines 208-212: the select on req.Context().Done() with a default
DaemonSelect ==
    /\ pc = "select"
    /\ graceful' = cancelled
    /\ pc' = "returned"
    /\ UNCHANGED <<errs, lock, lockReleases, node, nodeCloses, apiErrc, gwErrc, lis, cancelled,
                   watcher, mounted, events, cancelAt>>
    /\ UNCHANGED <<chanVars, mergeVars, received, kpc>>

\* lines 321 and 415: corehttp.Serve returns v of its own, the goroutine goes
\* on to "errc <- v" (the nil a closing node makes it return is
\* NodeStopsService)
ServeReturn(c) ==
    /\ c \in DOMAIN ppc
    /\ ppc[c] = "serving"
    /\ \E v \in (IF node = "closing" THEN Errs ELSE Vals) :
         pending' = [pending EXCEPT ![c] = <<v>>]
    /\ ppc' = [ppc EXCEPT ![c] = "send"]
    /\ UNCHANGED <<chClosed, sent, mergeVars, received, kpc, daemonVars>>

\* a closing node stops the serving loops that are its children: their
\* corehttp.Serve returns nil
NodeStopsService(c) ==
    /\ node = "closing"
    /\ c \in DOMAIN ppc
    /\ ppc[c] = "serving"
    /\ pending' = [pending EXCEPT ![c] = <<NoErr>>]
    /\ ppc' = [ppc EXCEPT ![c] = "send"]
    /\ UNCHANGED <<chClosed, sent, mergeVars, received, kpc, daemonVars>>

\* a non-nil error has been returned by the serving loop of some service
ErrProduced == \E c \in DOMAIN sent : \E k \in DOMAIN (sent[c] \o pending[c]) :
                   (sent[c] \o pending[c])[k] # NoErr

\* the cancellation signal fires: req.Context() is done
Cancel ==
    /\ pc # "off"
    /\ ~cancelled
    /\ cancelled' = TRUE
    /\ cancelAt' = [fired |-> TRUE, pc |-> pc, clean |-> ~ErrProduced]
    /\ UNCHANGED <<pc, errs, lock, lockReleases, node, nodeCloses, apiErrc, gwErrc, lis,
                   watcher, graceful, mounted, events>>
    /\ UNCHANGED <<chanVars, mergeVars, received, kpc>>

\* Watcher unwinding by itself: it calls node.Close() after printing
WatcherClosesNode ==
    /\ watcher = "waiting"
    /\ cancelled
    /\ watcher' = "done"
    /\ node' = IF node = "running" THEN "closing" ELSE node
    /\ nodeCloses' = IF node = "running" THEN nodeCloses + 1 ELSE nodeCloses
    /\ UNCHANGED <<pc, errs, lock, lockReleases, apiErrc, gwErrc, lis,
                   cancelled, graceful, mounted, events, cancelAt>>
    /\ UNCHANGED <<chanVars, mergeVars, received, kpc>>

\* lines 116-121: the watcher goroutine prints and ends
Watcher ==
    /\ watcher = "waiting"
    /\ cancelled
    /\ watcher' = "done"
    /\ UNCHANGED <<pc, errs, lock, lockReleases, node, nodeCloses, apiErrc, gwErrc, lis,
                   cancelled, graceful, mounted, events, cancelAt>>
    /\ UNCHANGED <<chanVars, mergeVars, received, kpc>>

\* ---------------------------------------------------------- specifications
\* merge called on n arguments, each nil or a channel whose producer sends a
\* finite sequence of values and then closes it
InitMerge ==
    /\ \E n \in 0..MaxInputs :
         /\ cs \in {f \in [1..n -> 0..n] : \A j \in 1..n : f[j] \in {NilChan, j}}
         /\ pending \in [1..n -> SeqsUpTo(MergeVals, MaxTotal)]
         /\ SumLen(pending) <= MaxTotal
         /\ \A j \in 1..n : cs[j] = NilChan => pending[j] = <<>>
         /\ ppc = [j \in 1..n |-> IF cs[j] = NilChan THEN "none"
                                  ELSE IF pending[j] = <<>> THEN "close" ELSE "send"]
         /\ chClosed = [j \in 1..n |-> FALSE]
         /\ sent = [j \in 1..n |-> <<>>]
         /\ wpc = [j \in 1..n |-> "none"]
         /\ wval = [j \in 1..n |-> NoErr]
    /\ mpc = "loop"
    /\ mi = 1
    /\ wg = 0
    /\ cpc = "none"
    /\ outClosed = FALSE
    /\ outCloses = 0
    /\ received = <<>>
    /\ kpc = "recv"
    /\ DaemonIdle

MergeProgram ==
    \/ MergeLoop
    \/ MergeReturn
    \/ \E j \in 1..MaxInputs : OutputRecv(j)
    \/ \E j \in 1..MaxInputs : OutputDone(j)
    \/ CloseOut
    \/ \E c \in 1..MaxInputs : ProducerClose(c)

NextMerge ==
    \/ MergeProgram
    \/ \E j \in 1..MaxInputs : ConsumerRecv(j)
    \/ ConsumerDone

MergeSpec == InitMerge /\ [][NextMerge]_vars

\* daemonFunc is called: nothing is locked, built or launched
Init ==
    /\ ppc = <<"none", "none">>
    /\ pending = << <<>>, <<>> >>
    /\ chClosed = <<FALSE, FALSE>>
    /\ sent = << <<>>, <<>> >>
    /\ cs = <<>>
    /\ mpc = "idle"
    /\ mi = 1
    /\ wpc = <<>>
    /\ wval = <<>>
    /\ wg = 0
    /\ cpc = "none"
    /\ outClosed = FALSE
    /\ outCloses = 0
    /\ received = <<>>
    /\ kpc = "off"
    /\ pc = "start"
    /\ errs = <<>>
    /\ lock = "free"
    /\ lockReleases = 0
    /\ node = "none"
    /\ nodeCloses = 0
    /\ apiErrc = NilChan
    /\ gwErrc = NilChan
    /\ lis = <<"none", "none">>
    /\ cancelled = FALSE
    /\ watcher = "none"
    /\ graceful = FALSE
    /\ mounted = FALSE
    /\ events = <<>>
    /\ cancelAt = [fired |-> FALSE, pc |-> "", clean |-> TRUE]

\* the steps of daemonFunc's own goroutine
DaemonProgram ==
    \/ DaemonStart
    \/ DaemonInit
    \/ DaemonOpen
    \/ DaemonConfig
    \/ DaemonRouting
    \/ DaemonSupernode
    \/ DaemonBuild
    \/ DaemonApi
    \/ DaemonGateway
    \/ DaemonMount
    \/ DaemonMerge
    \/ \E j \in 1..2 : DaemonRecv(j)
    \/ DaemonRangeEnd
    \/ DaemonNodeClose
    \/ DaemonSelect

Next ==
    \/ DaemonProgram
    \/ MergeProgram
    \/ NodeClosed
    \/ \E c \in 1..2 : ServeReturn(c)
    \/ \E c \in 1..2 : NodeStopsService(c)
    \/ Cancel
    \/ Watcher

Spec == Init /\ [][Next]_vars

\* every goroutine of the program that can take a step eventually takes one;
\* when a serving loop returns and when cancellation fires is up to the
\* environment, except that a closing node does stop its serving loops
Fairness ==
    /\ WF_vars(DaemonProgram)
    /\ \A j \in 1..2 : WF_vars(DaemonRecv(j))
    /\ WF_vars(MergeLoop)
    /\ WF_vars(MergeReturn)
    /\ \A j \in 1..MaxInputs : WF_vars(OutputRecv(j))
    /\ \A j \in 1..MaxInputs : WF_vars(OutputDone(j))
    /\ WF_vars(CloseOut)
    /\ \A c \in 1..MaxInputs : WF_vars(ProducerClose(c))
    /\ WF_vars(NodeClosed)
    /\ \A c \in 1..2 : WF_vars(NodeStopsService(c))
    /\ WF_vars(Watcher)

FairSpec == Spec /\ Fairness

FairMergeSpec ==
    /\ MergeSpec
    /\ WF_vars(MergeLoop)
    /\ WF_vars(MergeReturn)
    /\ \A j \in 1..MaxInputs : WF_vars(OutputRecv(j))
    /\ \A j \in 1..MaxInputs : WF_vars(OutputDone(j))
    /\ WF_vars(CloseOut)
    /\ \A c \in 1..MaxInputs : WF_vars(ProducerClose(c))
    /\ \A j \in 1..MaxInputs : WF_vars(ConsumerRecv(j))
    /\ WF_vars(ConsumerDone)

\* ------------------------------------------------------------ properties
\* the values of a history of reads, and the reads that came from argument j
RECURSIVE ValuesOf(_)
ValuesOf(r) == IF r = <<>> THEN <<>> ELSE <<Head(r)[2]>> \o ValuesOf(Tail(r))
FromArg(r, j) == ValuesOf(SelectSeq(r, LAMBDA e : e[1] = j))

\* everything the producer of channel c sends in the run
Script(c) == sent[c] \o pending[c]
AllScripts == ConcatAll([c \in DOMAIN sent |-> Script(c)])

NonNilArgs == {j \in DOMAIN cs : cs[j] # NilChan}
NilArgs == {j \in DOMAIN cs : cs[j] = NilChan}

\* C1 (fan-in completeness): when the consumer that reads the merged output
\* until it is closed has ended, what it has read is, as a multiset, exactly
\* the union of the values of all inputs: nothing dropped, duplicated, invented.
C1_FanInComplete ==
    kpc = "done" => SeqToBag(ValuesOf(received)) = SeqToBag(AllScripts)

\* C1 witness: a drained merge of an input closed without a value and two
\* inputs with values, one of them sending the same value twice
C1_Witness ==
    /\ kpc = "done"
    /\ \E j \in NonNilArgs : Script(cs[j]) = <<>>
    /\ \E j \in NonNilArgs : Len(Script(cs[j])) = 2 /\ Script(cs[j])[1] = Script(cs[j])[2]
    /\ \E a, b \in DOMAIN received : received[a][1] # received[b][1]

\* every non-nil input is closed and every value sent on it has been forwarded
AllInputsClosed ==
    /\ mpc # "idle"
    /\ \A j \in NonNilArgs : chClosed[cs[j]]
AllForwarded ==
    /\ mpc = "ret"
    /\ \A j \in NonNilArgs : wpc[j] = "done"

\* the steps the goroutines of the program can take by themselves
ProgramStep ==
    \/ DaemonProgram
    \/ MergeProgram
    \/ NodeClosed
    \/ \E c \in 1..2 : NodeStopsService(c)
    \/ \E j \in 1..MaxInputs : ConsumerRecv(j)
    \/ ConsumerDone

\* C2 (the output closes iff every input has closed), safety half: out is
\* never closed while a non-nil input is open or holds an unforwarded value,
\* and it is closed at most once.
C2_ClosedOnlyAfterInputs ==
    /\ outCloses <= 1
    /\ outClosed => AllInputsClosed /\ AllForwarded

\* C2, liveness half as a final result: the program never comes to rest with
\* every non-nil input closed and out still open.
C2_ClosesOnceInputsClosed ==
    (AllInputsClosed /\ ~ENABLED ProgramStep) => outClosed

\* C2, liveness half: once every non-nil input has closed, out is eventually
\* closed.
C2_EventuallyClosed == AllInputsClosed ~> outClosed

\* C3 (fan-in nil-safety): a nil argument has no output goroutine, counts for
\* nothing in the WaitGroup, yields no value, and the condition under which out
\* is closed looks at the non-nil arguments only; what was read from out is,
\* argument by argument, what was sent on the non-nil arguments.
C3_NilSafe ==
    /\ \A j \in NilArgs : wpc[j] = "none" /\ FromArg(received, j) = <<>>
    /\ wg = Cardinality({j \in NonNilArgs : wpc[j] \in {"recv", "send"}})
    /\ cpc = "wait" =>
         (ENABLED CloseOut <=> \A j \in NonNilArgs : wpc[j] = "done")
    /\ \A j \in NonNilArgs :
         \/ wpc[j] = "send" /\ FromArg(received, j) \o <<wval[j]>> = sent[cs[j]]
         \/ wpc[j] # "send" /\ FromArg(received, j) = sent[cs[j]]

\* C3 witness: out has been closed by a merge called with a nil argument
\* between two non-nil ones that both delivered a value
C3_Witness ==
    /\ outClosed
    /\ \E i, j, k \in DOMAIN cs :
         /\ i < j /\ j < k
         /\ cs[j] = NilChan
         /\ FromArg(received, i) # <<>>
         /\ FromArg(received, k) # <<>>

\* ---------------------------------------------------- daemonFunc properties
Called(e) == \E k \in DOMAIN events : events[k] = e
IndexOf(e) == CHOOSE k \in DOMAIN events : events[k] = e
Count(e) == Cardinality({k \in DOMAIN events : events[k] = e})
Launchers == {"serveHTTPApi", "serveHTTPGateway", "mountFuse"}
RangeOf(f) == {f[x] : x \in DOMAIN f}

\* the first non-nil value read from the merged channel (NoErr if none)
RECURSIVE FirstNonNil(_)
FirstNonNil(vs) == IF vs = <<>> THEN NoErr
                   ELSE IF Head(vs) # NoErr THEN Head(vs) ELSE FirstNonNil(Tail(vs))

\* the non-nil errors the services have sent on their completion channels
Emitted == {e \in Errs : \E c \in DOMAIN sent : \E k \in DOMAIN sent[c] : sent[c][k] = e}

\* daemonFunc has left its read loop on a runtime error, reported exactly the
\* first non-nil value it read, run node.Close and returned
ShutDownOnFirstError ==
    /\ pc = "returned"
    /\ Len(errs) = 1
    /\ errs[1] \in Emitted
    /\ errs[1] = FirstNonNil(ValuesOf(received))
    /\ nodeCloses = 1
    /\ node = "closed"

\* C4 (first-error shutdown): with the API and the gateway both launched, once
\* either of them has sent a non-nil error on its completion channel,
\* daemonFunc eventually stops reading, has reported through res.SetError
\* exactly the first non-nil value read from the merged channel (an emitted
\* error), has run node.Close and has returned.
C4_FirstErrorShutdown ==
    \A c \in {ApiChan, GwChan} : \A e \in Errs :
        (gwErrc = GwChan /\ sent[c] = <<e>>) ~> ShutDownOnFirstError

\* C4 witness: the gateway's error has been reported and node.Close called
\* while the API is still serving
C4_Witness ==
    /\ pc = "closing"
    /\ errs = <<"e1">>
    /\ sent[GwChan] = <<"e1">>
    /\ ppc[ApiChan] = "serving"

\* cancellation fired while daemonFunc was blocked reading the merged channel
\* and no service had produced a non-nil error before
CleanCancel == cancelAt.fired /\ cancelAt.pc = "range" /\ cancelAt.clean

ApiFailed == errs # <<>> /\ errs[1] \in RangeOf(ApiErr)

\* C6 (bind-failure short-circuit): if serveHTTPApi returns an immediate
\* error, serveHTTPGateway and mountFuse are never invoked, the node is closed
\* exactly once and never built again, and the repo lock is acquired once and
\* released exactly once.
C6_BindFailureShortCircuit ==
    ApiFailed =>
        /\ ~Called("serveHTTPGateway") /\ ~Called("mountFuse") /\ ~Called("merge")
        /\ Count("fsrepo.Open") = 1 /\ Count("nb.Build") = 1
        /\ nodeCloses <= 1 /\ lockReleases <= 1
        /\ pc = "returned" => nodeCloses = 1 /\ node = "closed" /\ lockReleases = 1
                              /\ lock = "released"

\* C6 witness: daemonFunc has returned after the API listener failed to bind
C6_Witness == pc = "returned" /\ errs = <<"api:listen">>

\* C7 as claimed (no lock leak on setup failure): when fsrepo.Open succeeded
\* and daemonFunc has returned with an error before a node was built, the repo
\* lock has been released.
C7_NoLockLeak ==
    (pc = "returned" /\ lock # "free" /\ node = "none" /\ errs # <<>>)
        => lock = "released"

\* C8 (no double release): the repo lock is released at most once; daemonFunc
\* calls repo.Close only when no node was built and no build was started, and
\* once a node is built the lock is released only by the one node.Close of the
\* deferred teardown.
C8_NoDoubleRelease ==
    /\ lockReleases <= 1
    /\ Called("repo.Close") => node = "none" /\ ~Called("nb.Build")
    /\ node # "none" =>
         /\ Count("node.Close") = nodeCloses /\ nodeCloses <= 1
         /\ lock = "released" <=> node = "closed"
         /\ lockReleases = (IF node = "closed" THEN 1 ELSE 0)

\* C8 witness: a node was built and closed, and daemonFunc has returned with
\* the lock released once
C8_Witness ==
    /\ pc = "returned"
    /\ node = "closed"
    /\ lockReleases = 1

\* C9 (startup ordering): the repo lock is acquired before the node build
\* starts, the node is built before any launcher is invoked, and after a
\* failed lock acquisition or a failed build no launcher is ever invoked.
C9_StartupOrdering ==
    /\ Called("nb.Build") =>
         /\ Called("fsrepo.Open") /\ IndexOf("fsrepo.Open") < IndexOf("nb.Build")
         /\ lock # "free"
    /\ \A l \in Launchers : Called(l) =>
         /\ Called("nb.Build") /\ IndexOf("nb.Build") < IndexOf(l)
         /\ node # "none"
    /\ (errs # <<>> /\ errs[1] \in {"open", "build"}) =>
         \A l \in Launchers : ~Called(l)
    /\ \A c \in DOMAIN ppc : ppc[c] # "none" => node # "none"

\* C9 witness: all three launchers have been invoked
C9_Witness == \A l \in Launchers : Called(l)

\* the setup-phase errors the claim names: lock failure, build failure, bind
\* failure and malformed address of a launcher
ApiSetupErrs == {"api:listen", "api:addr"}
GwSetupErrs == {"gw:listen", "gw:addr"}
SetupErrs == {"open", "build"} \cup ApiSetupErrs \cup GwSetupErrs
Started(c) == ppc[c] # "none"

\* C10 as claimed (setup errors precede all services): when daemonFunc has
\* returned because of a setup-phase error, no service's background serving
\* unit has been started.
C10_Original ==
    (pc = "returned" /\ errs # <<>> /\ errs[1] \in SetupErrs)
        => \A c \in DOMAIN ppc : ~Started(c)

\* C10 as amended: when daemonFunc has returned because of a setup-phase
\* error, the serving unit of the launcher that failed has not been started,
\* and none at all after a lock, build or API launcher failure; after a
\* gateway launcher failure the API's serving unit has been started.
C10_SetupErrorsPrecedeOwnService ==
    (pc = "returned" /\ errs # <<>> /\ errs[1] \in SetupErrs) =>
        /\ errs[1] \in {"open", "build"} \cup ApiSetupErrs =>
             \A c \in DOMAIN ppc : ~Started(c)
        /\ errs[1] \in GwSetupErrs => ~Started(GwChan) /\ Started(ApiChan)

\* C10 witness: the gateway listener failed to bind with the API launched
C10_Witness == pc = "returned" /\ errs = <<"gw:listen">> /\ Started(ApiChan)

\* ------------------------------------------------------ claims C11 to C20
\* serveHTTPGateway returned an immediate error
GwFailed == errs # <<>> /\ errs[1] \in RangeOf(GwErr)

\* what a launcher call has left: an error with a nil channel and no serving
\* goroutine, or no error with its channel, a bound listener and the goroutine
LaunchResult(failed, errc, c) ==
    \/ failed /\ errc = NilChan /\ ~Started(c)
    \/ ~failed /\ errc = c /\ Started(c) /\ lis[c] = "open"

\* C11 (launcher result contract): every call of serveHTTPApi or
\* serveHTTPGateway returns either a non-nil error with a nil completion
\* channel and no serving goroutine started, or no error with its completion
\* channel and the one serving goroutine started after the listener was bound;
\* no launcher error is ever sent on a completion channel.
C11_LauncherResult ==
    /\ (Called("serveHTTPApi") /\ pc # "api") =>
         LaunchResult(ApiFailed, apiErrc, ApiChan)
    /\ (Called("serveHTTPGateway") /\ pc # "gateway") =>
         LaunchResult(GwFailed, gwErrc, GwChan)
    /\ ~Called("serveHTTPApi") => apiErrc = NilChan /\ ~Started(ApiChan)
    /\ ~Called("serveHTTPGateway") => gwErrc = NilChan /\ ~Started(GwChan)
    /\ \A c \in DOMAIN sent : \A k \in DOMAIN (sent[c] \o pending[c]) :
         (sent[c] \o pending[c])[k] \notin RangeOf(ApiErr) \cup RangeOf(GwErr)

\* C11 witness: serveHTTPApi has returned its channel and serveHTTPGateway
\* an address error
C11_Witness ==
    /\ apiErrc = ApiChan
    /\ Started(ApiChan)
    /\ errs = <<"gw:addr">>
    /\ gwErrc = NilChan

\* the serving loop of the service on channel c has returned
ServeReturned(c) == ppc[c] \in {"send", "close", "done"}

\* C12, safety half: at most one value is ever sent on a completion channel,
\* it is a result of the serving loop, and the channel is closed only after it.
C12_AtMostOnce ==
    \A c \in DOMAIN sent :
        /\ Len(sent[c]) + Len(pending[c]) <= 1
        /\ chClosed[c] => Len(sent[c]) = 1 /\ ppc[c] = "done"

\* C12 as claimed (completion signal protocol): in every execution of
\* daemonFunc, once the serving loop of a launched service has returned, its
\* result is delivered on its completion channel exactly once and the channel
\* is then closed: the program never comes to rest with a returned serving loop
\* whose result is undelivered or whose channel is open.
C12_CompletionProtocol ==
    /\ C12_AtMostOnce
    /\ \A c \in DOMAIN ppc :
         (ServeReturned(c) /\ ~ENABLED ProgramStep) =>
             (Len(sent[c]) = 1 /\ chClosed[c])

\* C13 as claimed (graceful shutdown and failure are exclusive): the graceful
\* shutdown is reported only when the cancellation fired and no error was
\* reported through res.SetError.
C13_GracefulExcludesError ==
    graceful => (cancelled /\ errs = <<>>)

\* the positions of daemonFunc after its last launch and its last read
Leaving == {"defer", "closing", "select", "returned"}
LaunchesAndReads == <<Count("serveHTTPApi"), Count("serveHTTPGateway"),
                      Count("mountFuse"), Count("merge"), received>>

\* C14 (single error report): res.SetError is called at most once, and after
\* an error is reported daemonFunc launches no further service, reads no
\* further value from the merged channel and is on its way out.
C14_SingleErrorReport ==
    [][/\ Len(errs') <= 1
       /\ errs # <<>> => /\ errs' = errs
                         /\ LaunchesAndReads' = LaunchesAndReads
                         /\ pc' \in Leaving]_vars

\* C14 witness: daemonFunc has returned on the API's error while a value of
\* the gateway waits, unread, in its output goroutine
C14_Witness ==
    /\ pc = "returned"
    /\ errs = <<"e2">>
    /\ received = << <<1, "e2">> >>
    /\ wpc[2] = "send"

\* C15 (unconditional teardown): once a node is built, every return of
\* daemonFunc has run node.Close exactly once; node.Close is run only with a
\* node built, only after the last launch and the last read of the merged
\* channel, and never twice.
C15_UnconditionalTeardown ==
    /\ nodeCloses <= 1
    /\ nodeCloses = Count("node.Close")
    /\ (pc = "returned" /\ node # "none") => nodeCloses = 1 /\ node = "closed"
    /\ nodeCloses = 1 =>
         /\ Called("nb.Build") /\ node \in {"closing", "closed"}
         /\ events[Len(events)] = "node.Close"
         /\ pc \in {"closing", "select", "returned"}
    /\ node = "none" => nodeCloses = 0

\* C15 witness: daemonFunc has returned after the merged channel closed with
\* no error
C15_Witness ==
    /\ pc = "returned"
    /\ outClosed
    /\ errs = <<>>
    /\ nodeCloses = 1

\* C16 (clean closure): a nil value is never reported and does not end the
\* read loop: when daemonFunc has left the loop having read only nil values,
\* the merged channel was closed and res.SetError has not been called.
C16_CleanClosure ==
    /\ \A k \in DOMAIN errs : errs[k] # NoErr
    /\ \A k \in DOMAIN received : k < Len(received) => received[k][2] = NoErr
    /\ (Called("merge") /\ pc # "range" /\ FirstNonNil(ValuesOf(received)) = NoErr)
         => (outClosed /\ errs = <<>>)

\* C16 witness: both services ended cleanly and daemonFunc has returned
C16_Witness ==
    /\ pc = "returned"
    /\ Len(received) = 2
    /\ FirstNonNil(ValuesOf(received)) = NoErr
    /\ errs = <<>>

\* everything but the cancellation flag, its history and the watcher
OrchestratorState == <<pc, errs, lock, lockReleases, node, nodeCloses, apiErrc,
                       gwErrc, lis, graceful, mounted, events, chanVars,
                       mergeVars, received>>

\* C17 (cancellation only notifies): the firing of the cancellation signal
\* and the watcher's step change nothing of the orchestrator's state, and
\* daemonFunc leaves its read loop only by reading a non-nil error or because
\* the merged channel is closed.
C17_CancellationOnlyNotifies ==
    [][/\ (cancelled' # cancelled \/ (watcher = "waiting" /\ watcher' = "done")) =>
              OrchestratorState' = OrchestratorState
       /\ (pc = "range" /\ pc' # "range") =>
              \/ outClosed /\ received' = received
              \/ /\ Len(received') = Len(received) + 1
                 /\ received'[Len(received')][2] # NoErr]_vars

\* C17 witness: the cancellation has fired and the watcher has printed, and
\* daemonFunc is still reading with both services serving
C17_Witness ==
    /\ cancelled
    /\ watcher = "done"
    /\ pc = "range"
    /\ ppc = <<"serving", "serving">>

\* a non-nil runtime error has made daemonFunc return
ReturnedOnRuntimeError == pc = "returned" /\ errs # <<>> /\ errs[1] \in Errs
ServicesTerminated == \A c \in DOMAIN ppc : Started(c) => ppc[c] = "done"

\* C18 (no stuck fan-in workers after early return): when daemonFunc has
\* returned on the first non-nil error, the services it launched have all
\* terminated and no goroutine can take a step any more, every output
\* goroutine of merge and the goroutine that closes out have terminated.
C18_NoStuckWorkers ==
    (ReturnedOnRuntimeError /\ ServicesTerminated /\ ~ENABLED ProgramStep)
        => /\ \A j \in NonNilArgs : wpc[j] = "done"
           /\ cpc = "done"

\* C19 (no listener leak on immediate error): when serveHTTPApi or
\* serveHTTPGateway has returned a non-nil error, the listener of that
\* service is not open.
C19_NoListenerLeak ==
    /\ (ApiFailed /\ pc # "api") => lis[ApiChan] # "open"
    /\ (GwFailed /\ pc # "gateway") => lis[GwChan] # "open"

\* what was read from out of the values sent on channel c, in the order read
FromChan(r, c) == ValuesOf(SelectSeq(r, LAMBDA e : cs[e[1]] = c))
IsPrefix(s, t) == Len(s) <= Len(t) /\ SubSeq(t, 1, Len(s)) = s

\* C20 (per-input order preservation): at every moment and for every input
\* channel of merge, the values of that channel read from out so far are, in
\* the order read, an initial part of the values the channel's producer sends,
\* in the order sent; they are all of them once out has been read to its end.
C20_PerInputOrder ==
    \A c \in DOMAIN sent :
        /\ IsPrefix(FromChan(received, c), Script(c))
        /\ kpc = "done" => FromChan(received, c) = Script(c)

\* C20 witness: out read to its end, an input that sent two different values,
\* and a value of another input read between the two
C20_Witness ==
    /\ kpc = "done"
    /\ Len(received) = 3
    /\ received[1][1] = received[3][1]
    /\ received[2][1] # received[1][1]
    /\ received[1][2] # received[3][2]

====
